---- MODULE Spec2Model ----
(***************************************************************************)
(* Model of shimmy's vision request pipeline: the license gate             *)
(* (src/src/vision_license.rs) and the request pipeline that calls it      *)
(* (src/src/vision.rs).  Concurrent requests are tokio tasks; every        *)
(* action below is the code between two .await suspension points.          *)
(*                                                                         *)
(* Time is counted in whole hours.  Option<T> is a sequence of length 0    *)
(* (None) or 1 (Some).                                                     *)
(***************************************************************************)
EXTENDS Integers, Sequences, FiniteSets, TLC

\* ------------------------------------------------------------------ bounds
NumReq == 2            \* concurrent requests (tokio tasks)
NumKeys == 1           \* distinct license keys the requests present
MaxTicks == 2          \* clock advances in one behaviour
MaxItems == 1          \* entitlement items in one authority response

\* ------------------------------------------------------- program constants
GraceHours == 24           \* chrono::Duration::hours(24)
DefaultMonthlyCap == 1000  \* serde_json::Value::Number(1000.into())
DailyResetDays == 1        \* num_days() >= 1
MonthlyResetDays == 30     \* num_days() >= 30

Req == 1..NumReq
Keys == 1..NumKeys
None == << >>
Some(x) == <<x>>
IsSome(o) == Len(o) = 1
Unwrap(o) == o[1]

\* Result::Ok and Result::Err, a panic of the calling thread, and no outcome
\* yet
Ok(x) == [st |-> "Ok", v |-> Some(x)]
Err(e) == [st |-> "Err", v |-> Some(e)]
Panic == [st |-> "panic", v |-> None]
NotRun == [st |-> "none", v |-> None]

\* --------------------------------------------------------- serde_json::Value
\* Every value has the same shape.  A number is kept the way serde_json keeps
\* it: PosInt (u64), NegInt (i64 < 0) or Float.  A u64 is hi * 2^32 + lo, so
\* that the cast to u32 is computed (it keeps lo) without 2^32 as a literal.
JBool(b) == [t |-> "bool", hi |-> 0, lo |-> IF b THEN 1 ELSE 0]
JString == [t |-> "string", hi |-> 0, lo |-> 0]
JPosInt(hi, lo) == [t |-> "posint", hi |-> hi, lo |-> lo]
\* the negative integer -mag, mag >= 1
JNegInt(mag) == [t |-> "negint", hi |-> 0, lo |-> mag]
\* the non-integer fl + 1/2, fl >= 0
JFloat(fl) == [t |-> "float", hi |-> 0, lo |-> fl]

\* Value::as_bool
as_bool(v) == IF v.t = "bool" THEN Some(v.lo = 1) ELSE None
\* Value::as_u64: only a PosInt is a u64
as_u64(v) == IF v.t = "posint" THEN Some([hi |-> v.hi, lo |-> v.lo]) ELSE None
\* `cap as u32`: truncation of a u64 to its low 32 bits
as_u32(n) == n.lo
\* Option::unwrap_or
unwrap_or(o, d) == IF IsSome(o) THEN Unwrap(o) ELSE d

\* --------------------------------------------------------------- time
\* chrono Duration::num_days: whole days, truncated toward zero
num_days(hours) ==
  IF hours >= 0 THEN hours \div 24 ELSE 0 - ((0 - hours) \div 24)

\* ------------------------------------------------------------ data model
\* LicenseValidation { valid, entitlements, expires_at, meta }
LicenseValidation(valid, entitlements) ==
  [valid |-> valid, entitlements |-> entitlements, expires_at |-> None,
   meta |-> IF valid THEN "VALID" ELSE "NOT_VALID"]

\* CachedLicense { key, validation, cached_at, expires_at }
CachedLicense(key, validation, cached_at, expires_at) ==
  [key |-> key, validation |-> validation, cached_at |-> cached_at,
   expires_at |-> expires_at]

\* UsageStats { requests_today, requests_this_month, last_reset }
UsageStats(today, month, last_reset) ==
  [requests_today |-> today, requests_this_month |-> month,
   last_reset |-> last_reset]

\* HashMap<String, Value> as a function on the codes it holds
Ents(vision, cap) ==
  [c \in {"vision"} |-> vision] @@ [c \in {"monthly_cap"} |-> cap]
EntsVisionOnly(vision) == [c \in {"vision"} |-> vision]
EntsCapOnly(cap) == [c \in {"monthly_cap"} |-> cap]
EntsEmpty == [c \in {} |-> JString]
contains_key(m, k) == k \in DOMAIN m
\* HashMap::get
get(m, k) == IF k \in DOMAIN m THEN Some(m[k]) ELSE None
\* HashMap::insert
insert(m, k, v) == [c \in (DOMAIN m) \cup {k} |-> IF c = k THEN v ELSE m[c]]

\* Variant of CacheLookup: a verdict exactly 24 hours old still counts as fresh
CacheLookup_Inclusive(cached_opt, license_key, now) ==
  IF IsSome(cached_opt)
  THEN LET cached == Unwrap(cached_opt) IN
       IF cached.key = license_key
       THEN IF IsSome(cached.expires_at)
            THEN IF now <= Unwrap(cached.expires_at) + GraceHours
                 THEN Some(cached.validation)
                 ELSE None
            ELSE IF (now - cached.cached_at) <= GraceHours
                 THEN Some(cached.validation)
                 ELSE None
       ELSE None
  ELSE None

\* ------------------------------------------------- validate_license: cache
\* Lines 104-116: the verdict to reuse, if the cache holds a fresh one for
\* this key.
CacheLookup(cached_opt, license_key, now) ==
  IF IsSome(cached_opt)
  THEN LET cached == Unwrap(cached_opt) IN
       IF cached.key = license_key
       THEN IF IsSome(cached.expires_at)
            THEN IF now < Unwrap(cached.expires_at) + GraceHours
                 THEN Some(cached.validation)
                 ELSE None
            ELSE IF (now - cached.cached_at) < GraceHours
                 THEN Some(cached.validation)
                 ELSE None
       ELSE None
  ELSE None

\* Lines 126-130: validation.expires_at parsed as RFC 3339; a string is
\* [parses, hour].  The authority's verdict carries no expiry (line 314).
ParseExpiry(expires_at) ==
  IF IsSome(expires_at) /\ Unwrap(expires_at).parses
  THEN Some(Unwrap(expires_at).hour)
  ELSE None

\* Lines 122-131
NewCachedLicense(license_key, validation, now) ==
  CachedLicense(license_key, validation, now, ParseExpiry(validation.expires_at))

\* --------------------------------------------- call_keygen_validate: mapping
\* One item of data.relationships.entitlements.data: Some(code) when
\* attributes.code is a string, None otherwise.
ItemCodes == {"vision", "monthly_cap"}
Items == {Some(c) : c \in ItemCodes} \cup {None}

\* Lines 280-290: the loop over the entitlement items
RECURSIVE CollectEntitlements(_, _)
CollectEntitlements(items, ents) ==
  IF items = << >> THEN ents
  ELSE CollectEntitlements(
         Tail(items),
         IF IsSome(Head(items))
         THEN insert(ents, Unwrap(Head(items)), JBool(TRUE))
         ELSE ents)

\* Lines 273-296: `list` is None when the response has no data, or no array
\* at data.relationships.entitlements.data
ListedEntitlements(list) ==
  IF IsSome(list) THEN CollectEntitlements(Unwrap(list), EntsEmpty) ELSE EntsEmpty


\* Variant of AddDefaultVision: the default is added whatever meta.valid says
AddDefaultVision_Always(valid, ents) ==
  IF ~contains_key(ents, "vision")
  THEN insert(ents, "vision", JBool(TRUE))
  ELSE ents

\* Lines 298-301
AddDefaultVision(valid, ents) ==
  IF valid /\ ~contains_key(ents, "vision")
  THEN insert(ents, "vision", JBool(TRUE))
  ELSE ents

\* Lines 303-309
AddDefaultCap(ents) ==
  IF ~contains_key(ents, "monthly_cap")
  THEN insert(ents, "monthly_cap", JPosInt(0, DefaultMonthlyCap))
  ELSE ents

\* Lines 272-327: the verdict built from a successful response
KeygenVerdict(valid, list) ==
  LicenseValidation(valid, AddDefaultCap(AddDefaultVision(valid, ListedEntitlements(list))))

\* Variant of LicenseCheck: any vision value other than `false` enables it
LicenseCheck_Truthy(validation) ==
  IF ~validation.valid THEN "InvalidLicense"
  ELSE LET vision_enabled == get(validation.entitlements, "vision") IN
       IF IsSome(vision_enabled)
       THEN IF Unwrap(vision_enabled) = JBool(FALSE)
            THEN "FeatureNotEnabled"
            ELSE "Ok"
       ELSE "FeatureNotEnabled"

\* Variant of UsageCheck: the request that reaches the cap is still let in
UsageCheck_OffByOne(validation, usage) ==
  LET monthly_cap == get(validation.entitlements, "monthly_cap") IN
  IF IsSome(monthly_cap)
  THEN LET cap == as_u64(Unwrap(monthly_cap)) IN
       IF IsSome(cap)
       THEN IF usage.requests_this_month > as_u32(Unwrap(cap))
            THEN "UsageLimitExceeded"
            ELSE "Ok"
       ELSE "Ok"
  ELSE "Ok"

\* ------------------------------------------------ check_vision_access: gate
\* Lines 161-172
LicenseCheck(validation) ==
  IF ~validation.valid THEN "InvalidLicense"
  ELSE LET vision_enabled == get(validation.entitlements, "vision") IN
       IF IsSome(vision_enabled)
       THEN IF ~unwrap_or(as_bool(Unwrap(vision_enabled)), FALSE)
            THEN "FeatureNotEnabled"
            ELSE "Ok"
       ELSE "FeatureNotEnabled"

\* Lines 175-184
UsageCheck(validation, usage) ==
  LET monthly_cap == get(validation.entitlements, "monthly_cap") IN
  IF IsSome(monthly_cap)
  THEN LET cap == as_u64(Unwrap(monthly_cap)) IN
       IF IsSome(cap)
       THEN IF usage.requests_this_month >= as_u32(Unwrap(cap))
            THEN "UsageLimitExceeded"
            ELSE "Ok"
       ELSE "Ok"
  ELSE "Ok"

\* ----------------------------------------------------------- record_usage

\* Variant of ResetDaily: the daily counter is reset only after more than a
\* whole day
ResetDaily_After(usage, now) ==
  IF num_days(now - usage.last_reset) > DailyResetDays
  THEN [usage EXCEPT !.requests_today = 0]
  ELSE usage

\* Lines 192-195
ResetDaily(usage, now) ==
  IF num_days(now - usage.last_reset) >= DailyResetDays
  THEN [usage EXCEPT !.requests_today = 0]
  ELSE usage

\* Lines 196-199
ResetMonthly(usage, now) ==
  IF num_days(now - usage.last_reset) >= MonthlyResetDays
  THEN [usage EXCEPT !.requests_this_month = 0, !.last_reset = now]
  ELSE usage


\* Variant of Increment: only the monthly counter is incremented
Increment_MonthOnly(usage) ==
  [usage EXCEPT !.requests_this_month = @ + 1]

\* Lines 201-202
Increment(usage) ==
  [usage EXCEPT !.requests_today = @ + 1, !.requests_this_month = @ + 1]

\* Lines 190-202
RecordedUsage(usage, now) == Increment(ResetMonthly(ResetDaily(usage, now), now))

\* ------------------------------------------------------------- files
\* A file of the data directory: missing, unreadable as JSON, or holding a
\* serialized value.
Missing == [st |-> "missing", c |-> None]
Corrupt == [st |-> "corrupt", c |-> None]
File(x) == [st |-> "ok", c |-> Some(x)]


\* --------------------------------------------------------------- state
VARIABLES
  phase,       \* "boot" until load_cache has run, then "serving"
  env,         \* the process environment: dev_mode, account_id, api_key set?
  now,         \* chrono::Utc::now(), in hours
  ticks,       \* clock advances so far
  cache,       \* VisionLicenseManager.cache: Option<CachedLicense>
  usage,       \* VisionLicenseManager.usage: UsageStats
  usageLock,   \* holder of usage's write lock across an .await, 0 when free
  diskCache,   \* license_cache.json
  diskUsage,   \* usage_stats.json
  pc,          \* each request's position in process_vision_request
  req,         \* each request's VisionRequest fields
  pending,     \* validate_license's local `cached` (lines 122-131)
  verdict,     \* check_vision_access's local `validation` (line 156)
  result,      \* each request's outcome: "none", "ok" or the error
  callLog,     \* history: remote validation calls sent, [req, key, at, n]
  steps,       \* history: the pipeline steps each request has run
  usageWrites, \* history: how many times each request mutated UsageStats
  seen,        \* history: valid flag and vision entitlement of the verdict
               \* validate_license returned to each request
  generations, \* history: how many times each request called generate_vision
  args,        \* the arguments of the function under study (pure functions)
  ret          \* what that function returned, NotRun before it has run

vars == <<phase, env, now, ticks, cache, usage, usageLock, diskCache, diskUsage,
          pc, req, pending, verdict, result, callLog, steps, usageWrites, seen,
          generations, args, ret>>

shared == <<cache, usage, usageLock, diskCache, diskUsage>>
clock == <<now, ticks>>
\* the variables of the pure-function specifications
pure == <<args, ret>>

\* ------------------------------------------------------- initial files
\* Verdicts a license-cache file left by an earlier run (or written by hand)
\* may hold: monthly_cap of every JSON kind, vision of every kind.
DiskCaps ==
  {JPosInt(0, 0), JPosInt(0, 2), JPosInt(1, 1), JNegInt(1), JFloat(1),
   JBool(TRUE)}
\* a key the cache file may hold that no request of this run presents
OtherKey == NumKeys + 1
PlainVerdict == LicenseValidation(TRUE, Ents(JBool(TRUE), JPosInt(0, 2)))
DiskVerdicts ==
  {LicenseValidation(TRUE, Ents(JBool(TRUE), c)) : c \in DiskCaps}
  \cup {LicenseValidation(TRUE, EntsVisionOnly(JBool(TRUE)))}
  \cup {LicenseValidation(TRUE, Ents(v, JPosInt(0, 2))) : v \in {JBool(FALSE), JString}}
  \cup {LicenseValidation(TRUE, EntsCapOnly(JPosInt(0, 2)))}
  \cup {LicenseValidation(FALSE, Ents(JBool(TRUE), JPosInt(0, 2)))}
DiskCacheFiles ==
  {Missing, Corrupt}
  \cup {File(CachedLicense(1, v, 0, None)) : v \in DiskVerdicts}
  \cup {File(CachedLicense(OtherKey, PlainVerdict, 0, None)),
        File(CachedLicense(1, PlainVerdict, 0 - 1, None)),
        File(CachedLicense(1, PlainVerdict, 0 - 48, Some(0))),
        File(CachedLicense(1, PlainVerdict, 0, Some(0 - 24)))}
DiskUsageFiles ==
  {Missing, Corrupt}
  \cup {File(UsageStats(1, 1, 0)), File(UsageStats(999, 999, 0 - 1)),
        File(UsageStats(3, 2, 0 - 697))}

Envs == [dev_mode : BOOLEAN, account_id : BOOLEAN, api_key : BOOLEAN]
NormalEnv == [dev_mode |-> FALSE, account_id |-> TRUE, api_key |-> TRUE]

\* The installations the server starts in: every cache file under the normal
\* environment, every usage file with and without a cached license, and
\* every environment.
Boots ==
  {[env |-> NormalEnv, cache |-> c, usage |-> Missing] : c \in DiskCacheFiles}
  \cup {[env |-> NormalEnv, cache |-> c, usage |-> u] :
          c \in {Missing, File(CachedLicense(1, PlainVerdict, 0, None))},
          u \in DiskUsageFiles}
  \cup {[env |-> e, cache |-> File(CachedLicense(1, PlainVerdict, 0, None)),
         usage |-> File(UsageStats(1, 1, 0))] : e \in Envs}

Init ==
  /\ phase = "boot"
  /\ \E b \in Boots : env = b.env /\ diskCache = b.cache /\ diskUsage = b.usage
  /\ now = 0
  /\ ticks = 0
  /\ cache = None                       \* line 68
  /\ usage = UsageStats(0, 0, 0)        \* lines 69-73, last_reset = now
  /\ usageLock = 0
  /\ pc = [r \in Req |-> "idle"]
  /\ req = [r \in Req |-> [license |-> None, image |-> "unset"]]
  /\ pending = [r \in Req |-> None]
  /\ verdict = [r \in Req |-> None]
  /\ result = [r \in Req |-> "none"]
  /\ callLog = {}
  /\ steps = [r \in Req |-> {}]
  /\ usageWrites = [r \in Req |-> 0]
  /\ seen = [r \in Req |-> None]
  /\ generations = [r \in Req |-> 0]
  /\ args = None
  /\ ret = NotRun

\* ------------------------------------------------------------ the clock
TickHours == {23, 24}
Tick(d) ==
  /\ ticks < MaxTicks
  /\ now' = now + d
  /\ ticks' = ticks + 1
  /\ UNCHANGED <<phase, env, generations, pure, shared, pc, req, pending, verdict, result,
                 callLog, steps, usageWrites, seen>>

\* ------------------------------------------------------------ load_cache
\* Lines 80-96.  A file that does not parse ends load_cache with the error,
\* leaving what was loaded before it.
load_cache ==
  /\ phase = "boot"
  /\ phase' = "serving"
  /\ cache' = IF diskCache.st = "ok" THEN diskCache.c ELSE cache
  /\ usage' = IF diskCache.st # "corrupt" /\ diskUsage.st = "ok"
              THEN Unwrap(diskUsage.c)
              ELSE usage
  /\ UNCHANGED <<env, generations, pure, clock, usageLock, diskCache, diskUsage, pc, req, pending,
                 verdict, result, callLog, steps, usageWrites, seen>>

\* ------------------------------------------------------ request bookkeeping
Advance(r, to, ran) ==
  /\ pc' = [pc EXCEPT ![r] = to]
  /\ steps' = [steps EXCEPT ![r] = @ \cup ran]
  /\ result' = result

\* `?` on an Err: the request ends with the error
Fail(r, e, ran) ==
  /\ pc' = [pc EXCEPT ![r] = "error"]
  /\ steps' = [steps EXCEPT ![r] = @ \cup ran]
  /\ result' = [result EXCEPT ![r] = e]

LicenseErrors ==
  {"MissingLicense", "ValidationFailed", "InvalidLicense", "FeatureNotEnabled",
   "UsageLimitExceeded"}

\* ------------------------------------------- process_vision_request: entry
\* Variant of SkipRecordUsage: the dev-mode guard around record_usage is missing
SkipRecordUsage_Unguarded(e) == FALSE

\* vision.rs line 179: the license check is skipped in dev mode
SkipLicenseCheck(e) == e.dev_mode
\* vision.rs line 186: usage recording is skipped in dev mode
SkipRecordUsage(e) == e.dev_mode

\* Variant of AfterLicenseCheck: the metering call is left out
AfterLicenseCheck_NoMetering(e) == "load_image"

\* vision.rs lines 185-188: where the pipeline goes once the check is behind it
AfterLicenseCheck(e) == IF SkipRecordUsage(e) THEN "load_image" ELSE "record_usage"

\* vision_license.rs lines 147-154: check_vision_access up to validate_license
AccessEntry(e, license) ==
  IF e.dev_mode THEN "Ok"
  ELSE IF ~IsSome(license) THEN "MissingLicense"
  ELSE "validate"

LicenseKeys == {None} \cup {Some(k) : k \in Keys}

\* vision.rs lines 176-183 and vision_license.rs lines 147-154, up to the
\* first suspension point (the cache's read lock)
process_vision_request_begin(r, license) ==
  /\ phase = "serving"
  /\ pc[r] = "idle"
  /\ req' = [req EXCEPT ![r].license = license]
  /\ IF SkipLicenseCheck(env)
     THEN Advance(r, AfterLicenseCheck(env), {})
     ELSE LET entry == AccessEntry(env, license) IN
          IF entry = "Ok"
          THEN Advance(r, AfterLicenseCheck(env), {"license_check", "check_ok"})
          ELSE IF entry = "validate"
          THEN Advance(r, "cache_read", {"license_check"})
          ELSE Fail(r, entry, {"license_check"})
  /\ UNCHANGED <<phase, env, generations, pure, clock, shared, pending, verdict, callLog,
                 usageWrites, seen>>

\* What the history keeps of a verdict
Summary(validation) ==
  [valid |-> validation.valid, vision |-> get(validation.entitlements, "vision")]

\* vision_license.rs lines 156-172: validate_license has returned
\* `validation`; the local lives on only if the checks pass
AfterVerdict(r, validation, ran) ==
  /\ seen' = [seen EXCEPT ![r] = Some(Summary(validation))]
  /\ LET c == LicenseCheck(validation) IN
     IF c = "Ok"
     THEN /\ Advance(r, "usage_read", ran)
          /\ verdict' = [verdict EXCEPT ![r] = Some(validation)]
     ELSE /\ Fail(r, c, ran)
          /\ verdict' = verdict

\* ------------------------------------------------------- validate_license
\* Lines 103-116: the cache is read under its read lock
validate_license_read(r) ==
  /\ pc[r] = "cache_read"
  /\ LET hit == CacheLookup(cache, Unwrap(req[r].license), now) IN
     IF IsSome(hit)
     THEN AfterVerdict(r, Unwrap(hit), {"cache_hit"})
     ELSE /\ Advance(r, "keygen", {"cache_miss"})
          /\ UNCHANGED <<verdict, seen>>
  /\ UNCHANGED <<phase, env, generations, pure, clock, shared, req, pending, callLog, usageWrites>>

\* Lines 216-264: the credentials are read, then the request is sent
call_keygen_validate_send(r) ==
  /\ pc[r] = "keygen"
  /\ IF ~env.account_id \/ ~env.api_key
     THEN /\ Fail(r, "ValidationFailed", {"config_error"})
          /\ callLog' = callLog
     ELSE /\ Advance(r, "keygen_wait", {"remote_call"})
          /\ callLog' = callLog \cup
               {[req |-> r, key |-> Unwrap(req[r].license), at |-> now,
                 n |-> Cardinality({c \in callLog : c.req = r}) + 1]}
  /\ UNCHANGED <<phase, env, generations, pure, clock, shared, req, pending, verdict, usageWrites,
                 seen>>

\* What the authority may answer: no answer, a non-success status, a body
\* that is not the expected JSON, or a verdict with an entitlement list.
EntitlementLists == UNION {[1..n -> Items] : n \in 0..MaxItems}
AuthorityReplies ==
  {[status |-> s, valid |-> FALSE, list |-> None] :
     s \in {"transport_error", "http_error", "bad_json"}}
  \cup {[status |-> "ok", valid |-> v, list |-> l] :
          v \in BOOLEAN, l \in {None} \cup {Some(x) : x \in EntitlementLists}}

\* Variant of call_keygen_validate_reply: a failed call is sent again
call_keygen_validate_reply_Retry(r, reply) ==
  /\ pc[r] = "keygen_wait"
  /\ IF reply.status # "ok"
     THEN /\ Advance(r, "keygen", {"remote_failed"})
          /\ pending' = pending
     ELSE /\ Advance(r, "cache_save", {})
          /\ pending' = [pending EXCEPT ![r] =
               Some(NewCachedLicense(Unwrap(req[r].license),
                                     KeygenVerdict(reply.valid, reply.list), now))]
  /\ UNCHANGED <<phase, env, generations, pure, clock, shared, req, verdict, callLog, usageWrites,
                 seen>>

\* Lines 264-327 and 119-131: the answer arrives; on success the verdict is
\* built and wrapped in a CachedLicense stamped with the current time
call_keygen_validate_reply(r, reply) ==
  /\ pc[r] = "keygen_wait"
  /\ IF reply.status # "ok"
     THEN /\ Fail(r, "ValidationFailed", {"remote_failed"})
          /\ pending' = pending
     ELSE /\ Advance(r, "cache_save", {})
          /\ pending' = [pending EXCEPT ![r] =
               Some(NewCachedLicense(Unwrap(req[r].license),
                                     KeygenVerdict(reply.valid, reply.list), now))]
  /\ UNCHANGED <<phase, env, generations, pure, clock, shared, req, verdict, callLog, usageWrites,
                 seen>>

\* tokio::fs::write: the file is replaced, or the write fails leaving the old
\* file or a truncated one
WriteOutcomes == {"written", "failed", "truncated"}
Written(file, outcome, value) ==
  IF outcome = "written" THEN File(value)
  ELSE IF outcome = "truncated" THEN Corrupt
  ELSE file

\* Lines 133-135: the CachedLicense is written to disk; on failure `?`
\* returns and the local is dropped
validate_license_save(r, outcome) ==
  /\ pc[r] = "cache_save"
  /\ diskCache' = Written(diskCache, outcome, Unwrap(pending[r]))
  /\ IF outcome = "written"
     THEN /\ Advance(r, "cache_store", {})
          /\ pending' = pending
     ELSE /\ Fail(r, "ValidationFailed", {"cache_save_failed"})
          /\ pending' = [pending EXCEPT ![r] = None]
  /\ UNCHANGED <<phase, env, generations, pure, clock, cache, usage, usageLock, diskUsage, req,
                 verdict, callLog, usageWrites, seen>>

\* Lines 137-139: `cached` is moved into the in-memory cache under its write
\* lock and the verdict is returned to check_vision_access
validate_license_store(r) ==
  /\ pc[r] = "cache_store"
  /\ cache' = pending[r]
  /\ pending' = [pending EXCEPT ![r] = None]
  /\ AfterVerdict(r, Unwrap(pending[r]).validation, {"cache_stored"})
  /\ UNCHANGED <<phase, env, generations, pure, clock, usage, usageLock, diskCache, diskUsage, req,
                 callLog, usageWrites>>

\* Variant of check_vision_access_usage: the limit error is noted but the
\* request is not ended by it
check_vision_access_usage_NoReturn(r) ==
  /\ pc[r] = "usage_read"
  /\ usageLock = 0
  /\ LET c == UsageCheck(Unwrap(verdict[r]), usage) IN
     /\ pc' = [pc EXCEPT ![r] = AfterLicenseCheck(env)]
     /\ steps' = [steps EXCEPT ![r] = @ \cup {"check_ok"}]
     /\ result' = [result EXCEPT ![r] = IF c = "Ok" THEN @ ELSE c]
  /\ verdict' = [verdict EXCEPT ![r] = None]
  /\ UNCHANGED <<phase, env, generations, pure, clock, shared, req, pending, callLog, usageWrites,
                 seen>>

\* ---------------------------------------------------- check_vision_access
\* Lines 174-185: the usage counters are read under the read lock, which
\* waits for a writer; check_vision_access returns
check_vision_access_usage(r) ==
  /\ pc[r] = "usage_read"
  /\ usageLock = 0
  /\ LET c == UsageCheck(Unwrap(verdict[r]), usage) IN
     IF c = "Ok"
     THEN Advance(r, AfterLicenseCheck(env), {"check_ok"})
     ELSE Fail(r, c, {})
  /\ verdict' = [verdict EXCEPT ![r] = None]
  /\ UNCHANGED <<phase, env, generations, pure, clock, shared, req, pending, callLog, usageWrites,
                 seen>>

\* ----------------------------------------------------------- record_usage
\* Lines 189-202: the write lock is taken and the counters are updated
record_usage_update(r) ==
  /\ pc[r] = "record_usage"
  /\ usageLock = 0
  /\ usageLock' = r
  /\ usage' = RecordedUsage(usage, now)
  /\ usageWrites' = [usageWrites EXCEPT ![r] = @ + 1]
  /\ Advance(r, "usage_save", {"record_usage"})
  /\ UNCHANGED <<phase, env, generations, pure, clock, cache, diskCache, diskUsage, req, pending,
                 verdict, callLog, seen>>

\* Lines 204-209: the counters are written to disk with the write lock still
\* held; the lock is released on return
record_usage_save(r, outcome) ==
  /\ pc[r] = "usage_save"
  /\ usageLock = r
  /\ usageLock' = 0
  /\ diskUsage' = Written(diskUsage, outcome, usage)
  /\ IF outcome = "written"
     THEN Advance(r, "load_image", {})
     ELSE Fail(r, "RecordUsageFailed", {"usage_save_failed"})
  /\ UNCHANGED <<phase, env, generations, pure, clock, cache, usage, diskCache, req, pending,
                 verdict, callLog, usageWrites, seen>>

\* ------------------------------------- process_vision_request: the pipeline
ImageSources == {"base64", "url", "both", "neither"}

\* vision.rs lines 190-201: image_base64 is looked at first, then url
load_image(r, image, ok) ==
  /\ pc[r] = "load_image"
  /\ req' = [req EXCEPT ![r].image = image]
  /\ IF image \in {"base64", "both"}
     THEN IF ok
          THEN Advance(r, "preprocess", {"decode_base64"})
          ELSE Fail(r, "DecodeFailed", {"decode_base64"})
     ELSE IF image = "url"
     THEN IF ok
          THEN Advance(r, "preprocess", {"fetch_url"})
          ELSE Fail(r, "FetchFailed", {"fetch_url"})
     ELSE Fail(r, "NoImageSource", {})
  /\ UNCHANGED <<phase, env, generations, pure, clock, shared, pending, verdict, callLog,
                 usageWrites, seen>>

\* vision.rs lines 203-210
preprocess(r, ok) ==
  /\ pc[r] = "preprocess"
  /\ IF ok
     THEN Advance(r, "load_model", {"preprocess"})
     ELSE Fail(r, "PreprocessFailed", {"preprocess"})
  /\ UNCHANGED <<phase, env, generations, pure, clock, shared, req, pending, verdict, callLog,
                 usageWrites, seen>>

\* vision.rs lines 212-250: the model is looked up and loaded
load_model(r, ok) ==
  /\ pc[r] = "load_model"
  /\ IF ok
     THEN Advance(r, "inference", {"load_model"})
     ELSE Fail(r, "ModelUnavailable", {"load_model"})
  /\ UNCHANGED <<phase, env, generations, pure, clock, shared, req, pending, verdict, callLog,
                 usageWrites, seen>>

\* vision.rs lines 252-290: the prompt is built, generate_vision is called and
\* its future is awaited under tokio::time::timeout
inference_start(r) ==
  /\ pc[r] = "inference"
  /\ generations' = [generations EXCEPT ![r] = @ + 1]
  /\ Advance(r, "generating", {"inference"})
  /\ UNCHANGED <<phase, env, pure, clock, shared, req, pending, verdict, callLog,
                 usageWrites, seen>>

\* Variant of inference: a generation that timed out is started again
inference_Retry(r, outcome) ==
  /\ pc[r] = "generating"
  /\ IF outcome = "completed"
     THEN Advance(r, "parse", {})
     ELSE IF outcome = "failed"
     THEN Fail(r, "InferenceFailed", {})
     ELSE Advance(r, "inference", {})
  /\ UNCHANGED <<phase, env, generations, pure, clock, shared, req, pending,
                 verdict, callLog, usageWrites, seen>>

\* vision.rs lines 290-293: the generation returns its text or its error
\* before the 10 seconds are over, or the timer fires first and the future is
\* dropped with the request's return
InferenceOutcomes == {"completed", "failed", "timeout"}
inference(r, outcome) ==
  /\ pc[r] = "generating"
  /\ IF outcome = "completed"
     THEN Advance(r, "parse", {})
     ELSE IF outcome = "failed"
     THEN Fail(r, "InferenceFailed", {})
     ELSE Fail(r, "Timeout", {})
  /\ UNCHANGED <<phase, env, generations, pure, clock, shared, req, pending,
                 verdict, callLog, usageWrites, seen>>

\* vision.rs lines 300-308: parse_vision_output never fails
parse_output(r) ==
  /\ pc[r] = "parse"
  /\ pc' = [pc EXCEPT ![r] = "done"]
  /\ steps' = [steps EXCEPT ![r] = @ \cup {"parse"}]
  /\ result' = [result EXCEPT ![r] = "ok"]
  /\ UNCHANGED <<phase, env, generations, pure, clock, shared, req, pending, verdict, callLog,
                 usageWrites, seen>>


\* ------------------------------------------------------- raw model text
\* The model's output is a string over a small alphabet of JSON pieces:
\*   "{"  "}"   the braces
\*   " "        whitespace
\*   "x"        a character no JSON value starts with
\*   "k"        the key and colon  "dom_map":
\*   "a"        the empty array  []
\* Positions are 1-based where Rust's are 0-based byte offsets; only their
\* order is used.
MaxLen == 5
Chars == {"{", "}", " ", "x", "k", "a"}
Texts == UNION {[1..n -> Chars] : n \in 0..MaxLen}

\* serde_json::Value::Array and Value::Object; c is the Vec, or the Map as a
\* function on its keys
Value_Array(items) == [t |-> "array", c |-> items]
Value_Object(m) == [t |-> "object", c |-> m]
EmptyMap == [key \in {} |-> None]

\* serde_json's parse_whitespace: the first position at or after i that is
\* not whitespace
RECURSIVE parse_whitespace(_, _)
parse_whitespace(s, i) ==
  IF i <= Len(s) /\ s[i] = " " THEN parse_whitespace(s, i + 1) ELSE i

NoValue == [ok |-> FALSE, next |-> 0, v |-> None]

\* serde_json's parse of one value starting at position i (not whitespace):
\* the value and the position after it
RECURSIVE parse_value(_, _)
parse_value(s, i) ==
  IF i > Len(s) THEN NoValue
  ELSE IF s[i] = "a" THEN [ok |-> TRUE, next |-> i + 1, v |-> Some(Value_Array(<< >>))]
  ELSE IF s[i] = "{"
  THEN LET j == parse_whitespace(s, i + 1) IN
       IF j > Len(s) THEN NoValue
       ELSE IF s[j] = "}"
       THEN [ok |-> TRUE, next |-> j + 1, v |-> Some(Value_Object(EmptyMap))]
       ELSE IF s[j] = "k"
       THEN LET member == parse_value(s, parse_whitespace(s, j + 1)) IN
            IF ~member.ok THEN NoValue
            ELSE LET close == parse_whitespace(s, member.next) IN
                 IF close <= Len(s) /\ s[close] = "}"
                 THEN [ok |-> TRUE, next |-> close + 1,
                       v |-> Some(Value_Object(
                               [key \in {"dom_map"} |-> Unwrap(member.v)]))]
                 ELSE NoValue
       ELSE NoValue
  ELSE NoValue

\* serde_json::from_str::<Value>: one value, whitespace around it allowed,
\* nothing else after it
from_str(s) ==
  LET r == parse_value(s, parse_whitespace(s, 1)) IN
  IF r.ok /\ parse_whitespace(s, r.next) = Len(s) + 1 THEN r.v ELSE None

\* str::find and str::rfind of one character
find(s, ch) ==
  IF \E i \in 1..Len(s) : s[i] = ch
  THEN Some(CHOOSE i \in 1..Len(s) : s[i] = ch /\ \A j \in 1..(i - 1) : s[j] # ch)
  ELSE None
rfind(s, ch) ==
  IF \E i \in 1..Len(s) : s[i] = ch
  THEN Some(CHOOSE i \in 1..Len(s) : s[i] = ch /\ \A j \in (i + 1)..Len(s) : s[j] # ch)
  ELSE None

\* &s[start..=end]: the slice, or a panic when start > end + 1
SliceInclusive(s, start, end) ==
  IF start > end + 1 THEN [panic |-> TRUE, s |-> << >>]
  ELSE [panic |-> FALSE, s |-> SubSeq(s, start, end)]

\* str::trim
RECURSIVE trim_start(_)
trim_start(s) == IF s # << >> /\ Head(s) = " " THEN trim_start(Tail(s)) ELSE s
RECURSIVE trim_end(_)
trim_end(s) ==
  IF s # << >> /\ s[Len(s)] = " " THEN trim_end(SubSeq(s, 1, Len(s) - 1)) ELSE s
trim(s) == trim_end(trim_start(s))


\* ------------------------------------------------ parse_structured_output
\* Value::String and Value::Number; a number is kept in tenths
Value_String(str) == [t |-> "string", c |-> str]
Value_Number(tenths) == [t |-> "number", c |-> tenths]

\* Value::get with a string key: only an object has members
value_get(v, key) ==
  IF v.t = "object" /\ key \in DOMAIN v.c THEN Some(v.c[key]) ELSE None
as_array(v) == IF v.t = "array" THEN Some(v.c) ELSE None
as_object(v) == IF v.t = "object" THEN Some(v.c) ELSE None
as_str(v) == IF v.t = "string" THEN Some(v.c) ELSE None
as_f64(v) == IF v.t = "number" THEN Some(v.c) ELSE None
\* `as f32`: the decimals modelled have one fractional digit, which f32 keeps
as_f32(x) == x


\* Variant of filter_map: one malformed element aborts the whole array
filter_map_AllOrNothing(results) ==
  IF \A i \in 1..Len(results) : IsSome(results[i])
  THEN [i \in 1..Len(results) |-> Unwrap(results[i])]
  ELSE << >>

\* Iterator::filter_map(f).collect::<Vec<_>>(), given f's result for each
\* element: the Some results, in order
filter_map(results) ==
  LET kept == SelectSeq(results, IsSome) IN
  [i \in 1..Len(kept) |-> Unwrap(kept[i])]

\* v.get(key).and_then(as_str), .and_then(as_f64), .and_then(as_array),
\* .and_then(as_object), .and_then(as_bool)
get_str(v, key) ==
  IF IsSome(value_get(v, key)) THEN as_str(Unwrap(value_get(v, key))) ELSE None
get_f64(v, key) ==
  IF IsSome(value_get(v, key)) THEN as_f64(Unwrap(value_get(v, key))) ELSE None
get_array(v, key) ==
  IF IsSome(value_get(v, key)) THEN as_array(Unwrap(value_get(v, key))) ELSE None
get_object(v, key) ==
  IF IsSome(value_get(v, key)) THEN as_object(Unwrap(value_get(v, key))) ELSE None
get_bool(v, key) ==
  IF IsSome(value_get(v, key)) THEN as_bool(Unwrap(value_get(v, key))) ELSE None
\* v.get(key).and_then(as_f64).map(|c| c as f32)
get_f32(v, key) ==
  IF IsSome(get_f64(v, key)) THEN Some(as_f32(Unwrap(get_f64(v, key)))) ELSE None

\* Lines 484-490: one element of text_blocks, None when it has no string text
TextBlockOf(item) ==
  IF IsSome(get_str(item, "text"))
  THEN Some([text |-> Unwrap(get_str(item, "text")),
             confidence |-> get_f32(item, "confidence")])
  ELSE None

\* Lines 478-494
DecodeTextBlocks(parsed) ==
  IF IsSome(get_array(parsed, "text_blocks"))
  THEN LET arr == Unwrap(get_array(parsed, "text_blocks")) IN
       filter_map([i \in 1..Len(arr) |-> TextBlockOf(arr[i])])
  ELSE << >>

\* Lines 509-512 and 523-526: an element with two required string members
PairOf(item, first, second) ==
  IF IsSome(get_str(item, first)) /\ IsSome(get_str(item, second))
  THEN Some([c \in {first} |-> Unwrap(get_str(item, first))]
            @@ [c \in {second} |-> Unwrap(get_str(item, second))])
  ELSE None
RegionOf(item) == PairOf(item, "name", "description")
UIElementOf(item) == PairOf(item, "name", "element_type")

\* Lines 533-537 and 577-582: the layout and visual of a response without them
EmptyLayout == [theme |-> None, regions |-> << >>, key_ui_elements |-> << >>]
EmptyVisual(description) ==
  [background |-> None, accent_colors |-> << >>, contrast |-> None,
   description |-> description]

\* Lines 497-538
DecodeLayout(parsed) ==
  IF IsSome(value_get(parsed, "layout"))
  THEN LET layout_obj == Unwrap(value_get(parsed, "layout")) IN
       [theme |-> get_str(layout_obj, "theme"),
        regions |->
          IF IsSome(get_array(layout_obj, "regions"))
          THEN LET arr == Unwrap(get_array(layout_obj, "regions")) IN
               filter_map([i \in 1..Len(arr) |-> RegionOf(arr[i])])
          ELSE << >>,
        key_ui_elements |->
          IF IsSome(get_array(layout_obj, "key_ui_elements"))
          THEN LET arr == Unwrap(get_array(layout_obj, "key_ui_elements")) IN
               filter_map([i \in 1..Len(arr) |-> UIElementOf(arr[i])])
          ELSE << >>]
  ELSE EmptyLayout

\* Lines 547-555 and 560-568: the strings of the array member `key`, the
\* other elements dropped; empty when the member is not an array
Strings(v, key) ==
  IF IsSome(get_array(v, key))
  THEN LET arr == Unwrap(get_array(v, key)) IN
       filter_map([i \in 1..Len(arr) |-> as_str(arr[i])])
  ELSE << >>

\* Lines 556-570
ContrastOf(c) ==
  [ratio |-> get_f32(c, "ratio"),
   compliant |-> get_bool(c, "compliant"),
   issues |-> Strings(c, "issues")]

\* Lines 541-583
DecodeVisual(parsed) ==
  IF IsSome(value_get(parsed, "visual"))
  THEN LET visual_obj == Unwrap(value_get(parsed, "visual")) IN
       [background |-> get_str(visual_obj, "background"),
        accent_colors |-> Strings(visual_obj, "accent_colors"),
        contrast |->
          IF IsSome(value_get(visual_obj, "contrast"))
          THEN Some(ContrastOf(Unwrap(value_get(visual_obj, "contrast"))))
          ELSE None,
        description |-> get_str(visual_obj, "description")]
  ELSE EmptyVisual(None)

\* Lines 586-592
DecodeInteraction(parsed) ==
  [description |->
     IF IsSome(value_get(parsed, "interaction"))
     THEN get_str(Unwrap(value_get(parsed, "interaction")), "description")
     ELSE None]


\* Lines 612-619: a position with its four numeric members
RectOf(p) ==
  IF /\ IsSome(get_f64(p, "x")) /\ IsSome(get_f64(p, "y"))
     /\ IsSome(get_f64(p, "width")) /\ IsSome(get_f64(p, "height"))
  THEN Some([x |-> as_f32(Unwrap(get_f64(p, "x"))),
             y |-> as_f32(Unwrap(get_f64(p, "y"))),
             width |-> as_f32(Unwrap(get_f64(p, "width"))),
             height |-> as_f32(Unwrap(get_f64(p, "height")))])
  ELSE None

\* Lines 620-628: the members of an object whose values are strings
StringMembers(obj) ==
  [key \in {k \in DOMAIN obj : obj[k].t = "string"} |-> obj[key].c]

\* Lines 598-629: one element of dom_map, None without a string tag or a
\* complete position
DomElementOf(item) ==
  IF /\ IsSome(get_str(item, "tag"))
     /\ IsSome(value_get(item, "position"))
     /\ IsSome(RectOf(Unwrap(value_get(item, "position"))))
  THEN Some([tag |-> Unwrap(get_str(item, "tag")),
             id |-> get_str(item, "id"),
             class |-> get_str(item, "class"),
             text |-> get_str(item, "text"),
             position |-> Unwrap(RectOf(Unwrap(value_get(item, "position")))),
             attributes |->
               IF IsSome(get_object(item, "attributes"))
               THEN StringMembers(Unwrap(get_object(item, "attributes")))
               ELSE EmptyMap])
  ELSE None

\* Lines 595-632
DecodeDomMap(parsed) ==
  IF IsSome(get_array(parsed, "dom_map"))
  THEN LET arr == Unwrap(get_array(parsed, "dom_map")) IN
       Some(filter_map([i \in 1..Len(arr) |-> DomElementOf(arr[i])]))
  ELSE None

Backend == "llama.cpp"
ParseWarning == "Could not parse structured output"
Placeholder == "Analysis completed"
\* Some(0.5), in tenths
FallbackConfidence == 5

\* Lines 643-648 and 458-463
Meta(model_name, duration_ms, parse_warnings) ==
  [model |-> model_name, backend |-> Backend, duration_ms |-> duration_ms,
   parse_warnings |-> parse_warnings]

\* Lines 634-650
parse_structured_output(parsed, request, model_name, duration_ms, raw_output) ==
  Ok([image_path |-> None,
      url |-> request.url,
      mode |-> request.mode,
      text_blocks |-> DecodeTextBlocks(parsed),
      layout |-> DecodeLayout(parsed),
      visual |-> DecodeVisual(parsed),
      interaction |-> DecodeInteraction(parsed),
      dom_map |-> DecodeDomMap(parsed),
      meta |-> Meta(model_name, duration_ms, None),
      raw_model_output |-> Some(raw_output)])


\* Variant of FallbackResponse: the trimmed text is kept as the raw output
FallbackResponse_Trimmed(raw_output, request, model_name, duration_ms) ==
  Ok([image_path |-> None,
      url |-> request.url,
      mode |-> request.mode,
      text_blocks |-> <<[text |-> trim(raw_output),
                         confidence |-> Some(FallbackConfidence)]>>,
      layout |-> EmptyLayout,
      visual |-> EmptyVisual(Some(Placeholder)),
      interaction |-> [description |-> None],
      dom_map |-> None,
      meta |-> Meta(model_name, duration_ms, Some(<<ParseWarning>>)),
      raw_model_output |-> Some(trim(raw_output))])

\* Lines 436-465: the response built from text that is not JSON
FallbackResponse(raw_output, request, model_name, duration_ms) ==
  Ok([image_path |-> None,
      url |-> request.url,
      mode |-> request.mode,
      text_blocks |-> <<[text |-> trim(raw_output),
                         confidence |-> Some(FallbackConfidence)]>>,
      layout |-> EmptyLayout,
      visual |-> EmptyVisual(Some(Placeholder)),
      interaction |-> [description |-> None],
      dom_map |-> None,
      meta |-> Meta(model_name, duration_ms, Some(<<ParseWarning>>)),
      raw_model_output |-> Some(raw_output)])

\* Lines 415-466
parse_vision_output(raw_output, request, model_name, duration_ms) ==
  IF IsSome(from_str(raw_output))
  THEN parse_structured_output(Unwrap(from_str(raw_output)), request,
                               model_name, duration_ms, raw_output)
  ELSE LET json_start == find(raw_output, "{")
           json_end == rfind(raw_output, "}") IN
       IF IsSome(json_start) /\ IsSome(json_end)
       THEN LET json_str == SliceInclusive(raw_output, Unwrap(json_start),
                                           Unwrap(json_end)) IN
            IF json_str.panic THEN Panic
            ELSE IF IsSome(from_str(json_str.s))
            THEN parse_structured_output(Unwrap(from_str(json_str.s)), request,
                                         model_name, duration_ms, raw_output)
            ELSE FallbackResponse(raw_output, request, model_name, duration_ms)
       ELSE FallbackResponse(raw_output, request, model_name, duration_ms)


\* ------------------------------------------------------- preprocess_image
\* Widths, heights and long-edge caps run over 1..MaxDim.  In this range the
\* f32 and f64 arithmetic of lines 337-353 gives the same integers as the
\* exact arithmetic below (it does up to 10; from 11 on the f64 square root
\* can fall one short of an exact integer result).
MaxDim == 6
Dims == 1..MaxDim
PixelBudgets == 0..(MaxDim * MaxDim)
JpegQuality == 80

\* Ord::max and f32::max / f64::max
max(a, b) == IF a >= b THEN a ELSE b

\* (a as f32 * b as f32 / c as f32).round(): to the nearest integer, halves
\* away from zero
round_ratio(a, b, c) == (2 * a * b + c) \div (2 * c)

\* Variant of ClampLongEdge: the short edge is not held at 1 or above
ClampLongEdge_NoFloor(w, h, cfg) ==
  IF max(w, h) > cfg.max_long_edge
  THEN IF w >= h
       THEN [w |-> cfg.max_long_edge, h |-> round_ratio(h, cfg.max_long_edge, w)]
       ELSE [w |-> round_ratio(w, cfg.max_long_edge, h), h |-> cfg.max_long_edge]
  ELSE [w |-> w, h |-> h]

\* Lines 330-346: clamp by the long edge
ClampLongEdge(w, h, cfg) ==
  IF max(w, h) > cfg.max_long_edge
  THEN IF w >= h
       THEN [w |-> cfg.max_long_edge,
             h |-> max(round_ratio(h, cfg.max_long_edge, w), 1)]
       ELSE [w |-> max(round_ratio(w, cfg.max_long_edge, h), 1),
             h |-> cfg.max_long_edge]
  ELSE [w |-> w, h |-> h]

\* (edge as f64 * scale).floor() with scale = sqrt(max_pixels / (edge * other)):
\* the largest n with n * n <= edge * max_pixels / other
floor_scaled(edge, other, max_pixels) ==
  CHOOSE n \in 0..edge :
    /\ n * n * other <= edge * max_pixels
    /\ (n + 1) * (n + 1) * other > edge * max_pixels

\* Variant of PixelBudget: the scaled edges are rounded up, not truncated
PixelBudget_Rounded(target, cfg) ==
  IF target.w * target.h > cfg.max_pixels
  THEN [w |-> max(floor_scaled(target.w, target.h, cfg.max_pixels) + 1, 1),
        h |-> max(floor_scaled(target.h, target.w, cfg.max_pixels) + 1, 1)]
  ELSE target

\* Lines 348-355: enforce the total pixel budget
PixelBudget(target, cfg) ==
  IF target.w * target.h > cfg.max_pixels
  THEN [w |-> max(floor_scaled(target.w, target.h, cfg.max_pixels), 1),
        h |-> max(floor_scaled(target.h, target.w, cfg.max_pixels), 1)]
  ELSE target

\* Variant of Oversize: the final guard is missing
Oversize_Never(target, cfg) == FALSE

\* Line 370: the final guard
Oversize(target, cfg) == target.w * target.h > cfg.max_pixels

\* Lines 322-383.  `data` either does not decode or decodes to an image of
\* w x h pixels; the JPEG encoder takes every size in Dims.
preprocess_image(data, cfg) ==
  IF ~data.decodes THEN Err("decode")
  ELSE LET target == PixelBudget(ClampLongEdge(data.w, data.h, cfg), cfg) IN
       IF Oversize(target, cfg)
       THEN Err("image too large after resize")
       ELSE Ok([width |-> target.w, height |-> target.h])


\* -------------------------------------------------- prepare_vision_prompt
\* A String-returning function has returned x
Returned(x) == [st |-> "returned", v |-> Some(x)]

\* Mode strings: the five the match names, and others
Modes == {"ocr", "layout", "brief", "web", "full", "OCR", "", "describe"}
\* Model names, as sequences of characters
ModelNames ==
  {<<"l", "l", "a", "v", "a">>, <<"x", "L", "L", "a", "V", "A", "7">>,
   <<"l", "l", "a", "m", "a">>, <<"m", "i", "n", "i">>}

\* str::to_lowercase, on the letters of the model names
to_lowercase(s) ==
  [i \in 1..Len(s) |->
     IF s[i] = "L" THEN "l" ELSE IF s[i] = "V" THEN "v"
     ELSE IF s[i] = "A" THEN "a" ELSE s[i]]
\* str::contains
contains(s, pat) ==
  \E i \in 0..(Len(s) - Len(pat)) : SubSeq(s, i + 1, i + Len(pat)) = pat

\* Lines 388-392: the preamble, which states the image's dimensions
BaseInstruction(width, height) ==
  [text |-> "You are an AI vision assistant. ...", width |-> width,
   height |-> height]

\* Lines 394-400: the task of each mode: its opening sentence and the JSON
\* members its shape hint shows
analysis_task(mode) ==
  IF mode = "ocr"
  THEN [task |-> "Extract all visible text from the image.",
        shape |-> {"text_blocks", "text_blocks.text", "text_blocks.confidence"}]
  ELSE IF mode = "layout"
  THEN [task |-> "Analyze the layout and structure.",
        shape |-> {"layout", "layout.regions", "layout.regions.name",
                   "layout.regions.description", "layout.key_ui_elements",
                   "layout.key_ui_elements.name",
                   "layout.key_ui_elements.element_type"}]
  ELSE IF mode = "brief"
  THEN [task |-> "Provide a brief visual description.",
        shape |-> {"visual", "visual.description"}]
  ELSE IF mode = "web"
  THEN [task |-> "Analyze as web page screenshot.",
        shape |-> {"dom_map", "dom_map.tag", "dom_map.text", "interaction",
                   "interaction.description"}]
  ELSE [task |-> "Perform comprehensive analysis.",
        shape |-> {"text_blocks", "layout", "layout.regions",
                   "layout.key_ui_elements", "visual", "visual.description",
                   "interaction", "interaction.description"}]

\* Lines 387-411: the preamble and the task in the chat template of the
\* model's family
prepare_vision_prompt(mode, width, height, model_name) ==
  Returned([template |-> IF contains(to_lowercase(model_name),
                                     <<"l", "l", "a", "v", "a">>)
                         THEN "<s>[INST] {}{} [/INST]"
                         ELSE "<|im_start|>user {}{}<|im_end|> <|im_start|>assistant",
            base_instruction |-> BaseInstruction(width, height),
            analysis_task |-> analysis_task(mode)])

\* --------------------------------------------------------- specifications
\* The license gate under concurrent requests.  A request that has passed the
\* gate is followed no further here: the rest of its pipeline touches none of
\* the gate's state.
Next ==
  \/ load_cache
  \/ \E d \in TickHours : Tick(d)
  \/ \E r \in Req, license \in LicenseKeys : process_vision_request_begin(r, license)
  \/ \E r \in Req : validate_license_read(r)
  \/ \E r \in Req : call_keygen_validate_send(r)
  \/ \E r \in Req, reply \in AuthorityReplies : call_keygen_validate_reply(r, reply)
  \/ \E r \in Req, outcome \in WriteOutcomes : validate_license_save(r, outcome)
  \/ \E r \in Req : validate_license_store(r)
  \/ \E r \in Req : check_vision_access_usage(r)
  \/ \E r \in Req : record_usage_update(r)
  \/ \E r \in Req, outcome \in WriteOutcomes : record_usage_save(r, outcome)

Spec == Init /\ [][Next]_vars

\* One request followed through the whole of process_vision_request.
PipelineNext ==
  \/ load_cache
  \/ \E d \in TickHours : Tick(d)
  \/ \E license \in LicenseKeys : process_vision_request_begin(1, license)
  \/ validate_license_read(1)
  \/ call_keygen_validate_send(1)
  \/ \E reply \in AuthorityReplies : call_keygen_validate_reply(1, reply)
  \/ \E outcome \in WriteOutcomes : validate_license_save(1, outcome)
  \/ validate_license_store(1)
  \/ check_vision_access_usage(1)
  \/ record_usage_update(1)
  \/ \E outcome \in WriteOutcomes : record_usage_save(1, outcome)
  \/ \E image \in ImageSources, ok \in BOOLEAN : load_image(1, image, ok)
  \/ \E ok \in BOOLEAN : preprocess(1, ok)
  \/ \E ok \in BOOLEAN : load_model(1, ok)
  \/ inference_start(1)
  \/ \E outcome \in InferenceOutcomes : inference(1, outcome)
  \/ parse_output(1)

PipelineSpec == Init /\ [][PipelineNext]_vars


\* The gate's variables, and the server before it has started: the state
\* they keep while one of the pure functions is studied
gate == <<phase, env, now, ticks, cache, usage, usageLock, diskCache, diskUsage,
          pc, req, pending, verdict, result, callLog, steps, usageWrites, seen,
          generations>>
AtRest ==
  /\ phase = "boot"
  /\ env = NormalEnv
  /\ diskCache = Missing
  /\ diskUsage = Missing
  /\ now = 0
  /\ ticks = 0
  /\ cache = None
  /\ usage = UsageStats(0, 0, 0)
  /\ usageLock = 0
  /\ pc = [r \in Req |-> "idle"]
  /\ req = [r \in Req |-> [license |-> None, image |-> "unset"]]
  /\ pending = [r \in Req |-> None]
  /\ verdict = [r \in Req |-> None]
  /\ result = [r \in Req |-> "none"]
  /\ callLog = {}
  /\ steps = [r \in Req |-> {}]
  /\ usageWrites = [r \in Req |-> 0]
  /\ seen = [r \in Req |-> None]
  /\ generations = [r \in Req |-> 0]

\* parse_vision_output applied to every text of the alphabet, for requests
\* with and without a url
ParseCalls ==
  {[request |-> [url |-> None, mode |-> "ocr"], model_name |-> "minicpm-v",
    duration_ms |-> 0],
   [request |-> [url |-> Some("u"), mode |-> "web"], model_name |-> "llava",
    duration_ms |-> 7]}
ParseInit ==
  /\ AtRest
  /\ \E s \in Texts, c \in ParseCalls :
       args = [raw_output |-> s, request |-> c.request,
               model_name |-> c.model_name, duration_ms |-> c.duration_ms]
  /\ ret = NotRun

\* vision.rs lines 301-306: the call
parse_vision_output_call ==
  /\ ret = NotRun
  /\ ret' = parse_vision_output(args.raw_output, args.request, args.model_name,
                                args.duration_ms)
  /\ UNCHANGED <<args, gate>>

ParseNext == parse_vision_output_call
ParseSpec == ParseInit /\ [][ParseNext]_vars


\* preprocess_image applied to every image size and configuration in range
PreprocessInit ==
  /\ AtRest
  /\ \E w \in Dims, h \in Dims, decodes \in BOOLEAN,
        max_long_edge \in Dims, max_pixels \in PixelBudgets :
       /\ (~decodes => w = 1 /\ h = 1)
       /\ args = [data |-> [decodes |-> decodes, w |-> w, h |-> h],
                  cfg |-> [max_long_edge |-> max_long_edge,
                           max_pixels |-> max_pixels,
                           jpeg_quality |-> JpegQuality]]
  /\ ret = NotRun

\* vision.rs lines 209-210: the call
preprocess_image_call ==
  /\ ret = NotRun
  /\ ret' = preprocess_image(args.data, args.cfg)
  /\ UNCHANGED <<args, gate>>

PreprocessNext == preprocess_image_call
PreprocessSpec == PreprocessInit /\ [][PreprocessNext]_vars



\* record_usage called up to MaxCalls times in a row on one manager, the
\* clock advancing between the calls.  The counters, last_reset and the hour
\* of the first call are drawn so that the elapsed time falls on both sides
\* of the one-day and thirty-day thresholds, and before last_reset.
MaxCalls == 2
UsageInit ==
  /\ AtRest
  /\ \E today \in {0, 5}, month \in {0, 5}, last_reset \in {0, 48},
        start \in {0, 23, 24, 47, 719, 720, 744, 768} :
       args = [usage |-> UsageStats(today, month + today, last_reset),
               start |-> start]
  /\ ret = NotRun

\* The calls made so far: the hour of each, the counters it found and the
\* counters it left
Calls == IF ret = NotRun THEN << >> ELSE Unwrap(ret.v)

\* vision_license.rs lines 188-202, under the write lock: one call
record_usage_call ==
  /\ Len(Calls) < MaxCalls
  /\ \E gap \in {0, 1, 23, 24} :
       LET n == Len(Calls) + 1
           at == IF n = 1 THEN args.start ELSE Calls[n - 1].at + gap
           found == IF n = 1 THEN args.usage ELSE Calls[n - 1].left
       IN  /\ n = 1 => gap = 0
           /\ ret' = Returned(Append(Calls,
                       [at |-> at, found |-> found,
                        left |-> RecordedUsage(found, at)]))
  /\ UNCHANGED <<args, gate>>

UsageSpec == UsageInit /\ [][record_usage_call]_vars


\* parse_structured_output applied to parsed JSON documents whose sequence
\* fields are missing, of the wrong type, or arrays of up to MaxElems
\* elements of NumKinds kinds, well-formed for some fields and not others.
MaxElems == 2
NumKinds == 6
Rectangle(x) ==
  Value_Object([x |-> x, y |-> Value_Number(20), width |-> Value_Number(30),
                height |-> Value_Number(40)])
Elem(k) ==
  CASE k = 1 -> Value_Object(
         [text |-> Value_String("a"), confidence |-> Value_Number(9),
          name |-> Value_String("n1"), description |-> Value_String("d1"),
          element_type |-> Value_String("t1"), tag |-> Value_String("div"),
          position |-> Rectangle(Value_Number(10))])
    [] k = 2 -> Value_Object(
         [text |-> Value_Number(3), name |-> Value_String("n2"),
          tag |-> Value_String("p"),
          position |-> Value_Object([x |-> Value_Number(10),
                                     y |-> Value_Number(20),
                                     width |-> Value_Number(30)])])
    [] k = 3 -> Value_String("s3")
    [] k = 4 -> Value_Number(7)
    [] k = 5 -> Value_Object(
         [text |-> Value_String("b"), name |-> Value_String("n5"),
          description |-> Value_Number(1),
          element_type |-> Value_String("t5"), tag |-> Value_Number(1),
          position |-> Rectangle(Value_Number(10))])
    [] OTHER -> Value_Object(
         [text |-> Value_String("c"), confidence |-> Value_String("high"),
          name |-> Value_String("n6"), description |-> Value_String("d6"),
          tag |-> Value_String("span"),
          position |-> Rectangle(Value_String("10"))])

\* An object member: absent, of the wrong type, or the value v
Member(key, shape, v) ==
  IF shape = "missing" THEN EmptyMap
  ELSE [k \in {key} |-> IF shape = "wrong" THEN Value_Number(1) ELSE v]

Document(ks, sh) ==
  LET arr == Value_Array([i \in 1..Len(ks) |-> Elem(ks[i])])
      rev == Value_Array([i \in 1..Len(ks) |-> Elem(ks[Len(ks) + 1 - i])])
      contrast == Value_Object(Member("issues", sh.issues, rev)
                               @@ [ratio |-> Value_Number(45)])
      visual == Value_Object(Member("accent_colors", sh.accent_colors, arr)
                             @@ Member("contrast", sh.contrast, contrast)
                             @@ [background |-> Value_String("white")])
      layout == Value_Object(Member("regions", sh.regions, arr)
                             @@ Member("key_ui_elements", sh.key_ui_elements, rev)
                             @@ [theme |-> Value_String("dark")])
  IN  Value_Object(Member("text_blocks", sh.text_blocks, rev)
                   @@ Member("layout", sh.layout, layout)
                   @@ Member("visual", sh.visual, visual)
                   @@ Member("dom_map", sh.dom_map, arr))

DecodeInit ==
  /\ AtRest
  /\ \E n \in 0..MaxElems :
       \E ks \in [1..n -> 1..NumKinds],
          sh \in [{"text_blocks", "layout", "regions", "key_ui_elements",
                   "visual", "accent_colors", "contrast", "issues", "dom_map"}
                  -> {"present", "wrong", "missing"}] :
         /\ sh["layout"] # "present"
              => sh["regions"] = "missing" /\ sh["key_ui_elements"] = "missing"
         /\ sh["visual"] # "present"
              => sh["accent_colors"] = "missing" /\ sh["contrast"] = "missing"
         /\ sh["contrast"] # "present" => sh["issues"] = "missing"
         /\ args = [parsed |-> Document(ks, sh),
                    request |-> [url |-> Some("u"), mode |-> "web"],
                    model_name |-> "llava", duration_ms |-> 7,
                    raw_output |-> "{}"]
  /\ ret = NotRun

\* vision.rs lines 423 and 431: the call, in tier 1 and tier 2
parse_structured_output_call ==
  /\ ret = NotRun
  /\ ret' = parse_structured_output(args.parsed, args.request, args.model_name,
                                    args.duration_ms, args.raw_output)
  /\ UNCHANGED <<args, gate>>

DecodeSpec == DecodeInit /\ [][parse_structured_output_call]_vars


\* call_keygen_validate's handling of one answer of the authority: every
\* status, both values of meta.valid, no entitlement array or an array of up
\* to MaxListed items, each without a string code or with one of the codes
\* the gate reads or another code.
MaxListed == 3
Responses ==
  {[status |-> s, valid |-> FALSE, list |-> None] :
     s \in {"transport_error", "http_error", "bad_json"}}
  \cup {[status |-> "ok", valid |-> v, list |-> l] :
          v \in BOOLEAN,
          l \in {None} \cup
                {Some(x) : x \in UNION {[1..n -> Items \cup {Some("premium")}] :
                                          n \in 0..MaxListed}}}
KeygenInit ==
  /\ AtRest
  /\ \E response \in Responses : args = response
  /\ ret = NotRun

\* vision_license.rs lines 257-327: the response is turned into the result
call_keygen_validate_map ==
  /\ ret = NotRun
  /\ ret' = IF args.status # "ok"
            THEN Err("ValidationFailed")
            ELSE Ok(KeygenVerdict(args.valid, args.list))
  /\ UNCHANGED <<args, gate>>

KeygenSpec == KeygenInit /\ [][call_keygen_validate_map]_vars

\* prepare_vision_prompt applied to every mode, size and model name in range
PromptInit ==
  /\ AtRest
  /\ \E mode \in Modes, width \in Dims, height \in Dims, model_name \in ModelNames :
       args = [mode |-> mode, width |-> width, height |-> height,
               model_name |-> model_name]
  /\ ret = NotRun

\* vision.rs lines 255-260: the call
prepare_vision_prompt_call ==
  /\ ret = NotRun
  /\ ret' = prepare_vision_prompt(args.mode, args.width, args.height,
                                  args.model_name)
  /\ UNCHANGED <<args, gate>>

PromptNext == prepare_vision_prompt_call
PromptSpec == PromptInit /\ [][PromptNext]_vars


\* ================================================================= claims
CallsBy(r) == {c \in callLog : c.req = r}
Distance(a, b) == IF a >= b THEN a - b ELSE b - a

\* C1: for one license key, at most one remote validation call is made per
\* 24 hour freshness window, whatever the interleaving of the requests.
C1_NoStampede ==
  \A c1 \in callLog, c2 \in callLog :
    (c1 # c2 /\ c1.key = c2.key) => Distance(c1.at, c2.at) >= GraceHours

\* Freshness as the specification words it: the entry is for this key, and
\* either it has an expiry and now < expiry + 24h, or it has none and
\* now - cached_at < 24h.
FreshFor(c, k, t) ==
  /\ IsSome(c)
  /\ Unwrap(c).key = k
  /\ \/ IsSome(Unwrap(c).expires_at) /\ t < Unwrap(Unwrap(c).expires_at) + 24
     \/ ~IsSome(Unwrap(c).expires_at) /\ t - Unwrap(c).cached_at < 24

\* C2: validate_license reuses the cached verdict, with no remote call, if
\* and only if the cache holds a fresh verdict for the same key; otherwise it
\* goes to the remote authority.
C2_ReadStep ==
  \A r \in Req :
    (pc[r] = "cache_read" /\ pc'[r] # "cache_read") =>
      IF FreshFor(cache, Unwrap(req[r].license), now)
      THEN /\ seen'[r] = Some(Summary(Unwrap(cache).validation))
           /\ pc'[r] \in {"usage_read", "error"}
           /\ callLog' = callLog
           /\ CallsBy(r) = {}
      ELSE /\ pc'[r] = "keygen"
           /\ seen'[r] = None
C2_FreshReuse == [][C2_ReadStep]_vars

\* A verdict cached 23 hours ago, with no expiry, was reused without a call
C2_Witness ==
  \E r \in Req :
    /\ "cache_hit" \in steps[r]
    /\ pc[r] = "usage_read"
    /\ CallsBy(r) = {}
    /\ IsSome(cache)
    /\ ~IsSome(Unwrap(cache).expires_at)
    /\ now - Unwrap(cache).cached_at = 23


\* C3: with dev mode off the gate decides in order: no key => MissingLicense
\* (no remote call, cache and usage untouched); a verdict that is not valid
\* => InvalidLicense; vision absent or not `true` => FeatureNotEnabled; the
\* check passes only for a valid verdict whose vision entitlement is `true`.
C3_Decided ==
  \A r \in Req :
    (~env.dev_mode /\ pc[r] # "idle") =>
      /\ ~IsSome(req[r].license) =>
           /\ result[r] = "MissingLicense"
           /\ CallsBy(r) = {}
           /\ seen[r] = None
           /\ usageWrites[r] = 0
      /\ (IsSome(seen[r]) /\ ~Unwrap(seen[r]).valid) =>
           result[r] = "InvalidLicense"
      /\ (IsSome(seen[r]) /\ Unwrap(seen[r]).valid
            /\ Unwrap(seen[r]).vision # Some(JBool(TRUE))) =>
           result[r] = "FeatureNotEnabled"
      /\ "check_ok" \in steps[r] =>
           /\ IsSome(seen[r])
           /\ Unwrap(seen[r]).valid
           /\ Unwrap(seen[r]).vision = Some(JBool(TRUE))
C3_MissingKeyStep ==
  \A r \in Req :
    (pc[r] = "idle" /\ result'[r] = "MissingLicense") =>
      UNCHANGED <<cache, usage, diskCache, diskUsage, callLog>>
C3_DecisionOrder == []C3_Decided /\ [][C3_MissingKeyStep]_vars

\* One request was refused for its missing key, another because the vision
\* entitlement of its valid verdict is present but is not a boolean
C3_Witness ==
  \E r1 \in Req, r2 \in Req :
    /\ ~env.dev_mode
    /\ result[r1] = "MissingLicense"
    /\ result[r2] = "FeatureNotEnabled"
    /\ IsSome(seen[r2])
    /\ Unwrap(seen[r2]).valid
    /\ Unwrap(seen[r2]).vision = Some(JString)

\* A JSON number compared with a counter m, 0 <= m < 2^32
IsNumber(v) == v.t \in {"posint", "negint", "float"}
NumberLeq(v, m) ==
  IF v.t = "posint" THEN v.hi = 0 /\ v.lo <= m
  ELSE IF v.t = "negint" THEN TRUE
  ELSE v.lo < m
CapOf(validation) == get(validation.entitlements, "monthly_cap")

\* C4: for a valid, vision-enabled verdict whose monthly_cap is any JSON
\* number c, and any value m of the monthly counter, the gate answers
\* UsageLimitExceeded exactly when c <= m, and Ok when c > m.
C4_UsageStep ==
  \A r \in Req :
    (pc[r] = "usage_read" /\ pc'[r] # "usage_read"
       /\ IsSome(CapOf(Unwrap(verdict[r])))
       /\ IsNumber(Unwrap(CapOf(Unwrap(verdict[r]))))) =>
      IF NumberLeq(Unwrap(CapOf(Unwrap(verdict[r]))), usage.requests_this_month)
      THEN result'[r] = "UsageLimitExceeded"
      ELSE result'[r] = "none" /\ "check_ok" \in steps'[r]
C4_CapComparison == [][C4_UsageStep]_vars

\* C5: from requests_this_month = cap - 1, with no monthly reset due, the
\* check passes, record_usage leaves the counter at cap, and the next check
\* answers UsageLimitExceeded.
SmallCap(validation) ==
  /\ IsSome(CapOf(validation))
  /\ Unwrap(CapOf(validation)).t = "posint"
  /\ Unwrap(CapOf(validation)).hi = 0
C5_Step ==
  \A r \in Req :
    /\ (pc[r] = "usage_read" /\ pc'[r] # "usage_read"
          /\ SmallCap(Unwrap(verdict[r]))) =>
         LET cap == Unwrap(CapOf(Unwrap(verdict[r]))).lo IN
         /\ usage.requests_this_month = cap - 1 =>
              (result'[r] = "none" /\ pc'[r] = "record_usage")
         /\ usage.requests_this_month = cap =>
              result'[r] = "UsageLimitExceeded"
    /\ (pc[r] = "record_usage" /\ pc'[r] # "record_usage"
          /\ num_days(now - usage.last_reset) < 30) =>
         /\ usage'.requests_this_month = usage.requests_this_month + 1
         /\ pc'[r] = "usage_save"
C5_CapReached == [][C5_Step]_vars

\* One request took the counter from cap - 1 to cap and finished metering;
\* the other, with the same cached verdict, was then refused
C5_Witness ==
  \E r1 \in Req, r2 \in Req :
    /\ r1 # r2
    /\ pc[r1] = "load_image"
    /\ usageWrites[r1] = 1
    /\ usageWrites[r2] = 0
    /\ result[r2] = "UsageLimitExceeded"
    /\ IsSome(cache)
    /\ SmallCap(Unwrap(cache).validation)
    /\ Unwrap(CapOf(Unwrap(cache).validation)).lo = usage.requests_this_month
    /\ usage.requests_this_month >= 1
    /\ "cache_hit" \in steps[r1]
    /\ "cache_hit" \in steps[r2]


\* C6: UsageStats is mutated exactly once per request whose license check
\* passes, only after the check has returned Ok, and never by a request the
\* gate rejects.
C6_MeteredOnce ==
  \A r \in Req :
    /\ usageWrites[r] <= 1
    /\ usageWrites[r] = 1 => "check_ok" \in steps[r]
    /\ result[r] \in LicenseErrors => usageWrites[r] = 0
    /\ ("check_ok" \in steps[r] /\ pc[r] # "record_usage") => usageWrites[r] = 1

\* A request passed the check, was metered once and ran to the end
C6_Witness ==
  /\ pc[1] = "done"
  /\ "check_ok" \in steps[1]
  /\ usageWrites[1] = 1

LaterSteps ==
  {"record_usage", "decode_base64", "fetch_url", "preprocess", "load_model",
   "inference", "parse"}

\* C7: a license error ends the request in error, and none of the later
\* pipeline steps runs: no usage recording, no decode or fetch, no
\* preprocessing, no model load, no inference, no parsing.
C7_ShortCircuit ==
  \A r \in Req :
    result[r] \in LicenseErrors =>
      /\ pc[r] = "error"
      /\ steps[r] \cap LaterSteps = {}
      /\ usageWrites[r] = 0

\* A request was refused because the monthly cap is used up
C7_Witness ==
  /\ result[1] = "UsageLimitExceeded"
  /\ pc[1] = "error"
  /\ "cache_hit" \in steps[1]

\* C8: with the development-mode toggle set, a request with any license key
\* (or none) skips the check and the metering: no remote call, the cache
\* and UsageStats in memory and on disk stay as they are, and the pipeline
\* goes on to image loading.
C8_Untouched ==
  env.dev_mode =>
    /\ callLog = {}
    /\ \A r \in Req :
         /\ usageWrites[r] = 0
         /\ seen[r] = None
         /\ steps[r] \cap {"license_check", "check_ok", "record_usage"} = {}
         /\ result[r] \notin LicenseErrors \cup {"RecordUsageFailed"}
C8_Step ==
  (env.dev_mode /\ phase = "serving") =>
    /\ UNCHANGED <<cache, usage, usageLock, diskCache, diskUsage>>
    /\ \A r \in Req : (pc[r] = "idle" /\ pc'[r] # "idle") => pc'[r] = "load_image"
C8_DevModeBypass == []C8_Untouched /\ [][C8_Step]_vars

\* In dev mode a request without a key got as far as decoding its image
C8_Witness ==
  /\ env.dev_mode
  /\ pc[1] = "preprocess"
  /\ ~IsSome(req[1].license)
  /\ "decode_base64" \in steps[1]

\* C9: both writers replace the in-memory value first and persist second:
\* when the disk write fails the operation returns an error, but memory
\* already holds the new verdict, or the incremented counters.
C9_Step ==
  \A r \in Req :
    /\ (pc[r] = "cache_save" /\ pc'[r] = "error") =>
         /\ result'[r] = "ValidationFailed"
         /\ cache' = pending[r]
    /\ (pc[r] = "usage_save" /\ pc'[r] = "error") =>
         /\ result'[r] = "RecordUsageFailed"
         /\ usageWrites[r] = 1
         /\ usage' = usage
C9_MemoryFirst == [][C9_Step]_vars

\* C10: when the authority call fails, check_vision_access returns
\* ValidationFailed after exactly one remote attempt, and the license cache
\* (memory and disk) and UsageStats are unchanged.
C10_OneAttempt ==
  \A r \in Req :
    /\ Cardinality(CallsBy(r)) <= 1
    /\ "remote_failed" \in steps[r] =>
         /\ pc[r] = "error"
         /\ result[r] = "ValidationFailed"
         /\ Cardinality(CallsBy(r)) = 1
         /\ usageWrites[r] = 0
         /\ pending[r] = None
C10_FailStep ==
  \A r \in Req :
    (pc[r] = "keygen_wait" /\ "remote_failed" \in steps'[r]) =>
      /\ result'[r] = "ValidationFailed"
      /\ UNCHANGED <<cache, diskCache, usage, diskUsage, callLog>>
C10_RemoteFailure == []C10_OneAttempt /\ [][C10_FailStep]_vars

\* A request whose remote validation failed, after its single attempt
C10_Witness ==
  \E r \in Req :
    /\ "remote_failed" \in steps[r]
    /\ result[r] = "ValidationFailed"
    /\ Cardinality(CallsBy(r)) = 1


\* C11: when a remote validation is needed and a credential of the authority
\* is absent, the request ends with a configuration error that is none of
\* the license errors, and no remote call is made.
C11_ConfigError ==
  \A r \in Req :
    "config_error" \in steps[r] =>
      /\ pc[r] = "error"
      /\ result[r] \notin LicenseErrors
      /\ CallsBy(r) = {}


\* C12: for every raw model text, parse_vision_output returns Ok with a
\* VisionResponse; it never returns an error and never panics.
C12_Total == ret.st # "none" => ret.st = "Ok"

\* The substring from the first "{" to the last "}", when there is one
HasBraced(s) ==
  \E i \in 1..Len(s), j \in 1..Len(s) : i <= j /\ s[i] = "{" /\ s[j] = "}"
FirstOpen(s) == CHOOSE i \in 1..Len(s) : s[i] = "{" /\ \A n \in 1..(i - 1) : s[n] # "{"
LastClose(s) == CHOOSE j \in 1..Len(s) : s[j] = "}" /\ \A n \in (j + 1)..Len(s) : s[n] # "}"
Braced(s) == SubSeq(s, FirstOpen(s), LastClose(s))
Tier1(s) == IsSome(from_str(s))
Tier2(s) == ~Tier1(s) /\ HasBraced(s) /\ IsSome(from_str(Braced(s)))
\* The tier-3 response as the claim describes it
IsFallback(out, s) ==
  /\ out.st = "Ok"
  /\ Unwrap(out.v).text_blocks = <<[text |-> trim(s), confidence |-> Some(5)]>>
  /\ Unwrap(out.v).layout.regions = << >>
  /\ Unwrap(out.v).layout.key_ui_elements = << >>
  /\ Unwrap(out.v).dom_map = None
  /\ Unwrap(out.v).visual.description = Some("Analysis completed")
  /\ IsSome(Unwrap(out.v).meta.parse_warnings)
  /\ Unwrap(Unwrap(out.v).meta.parse_warnings) # << >>

\* C13: the tiers are tried in order and the first success wins: valid JSON
\* as a whole is decoded (tier 1), else a valid braced substring is decoded
\* (tier 2), both without parse warnings; the tier-3 fallback is produced if
\* and only if neither tier yields valid JSON.
C13_Tiers ==
  ret.st # "none" =>
    LET s == args.raw_output IN
    /\ Tier1(s) =>
         ret = parse_structured_output(Unwrap(from_str(s)), args.request,
                 args.model_name, args.duration_ms, s)
    /\ Tier2(s) =>
         ret = parse_structured_output(Unwrap(from_str(Braced(s))), args.request,
                 args.model_name, args.duration_ms, s)
    /\ (Tier1(s) \/ Tier2(s)) =>
         (ret.st = "Ok" /\ Unwrap(ret.v).meta.parse_warnings = None)
    /\ IsFallback(ret, s) <=> ~(Tier1(s) \/ Tier2(s))

\* C14: whichever tier produces the response, raw_model_output is the
\* untrimmed raw text, meta.model the given model name, meta.backend the
\* fixed identifier, meta.duration_ms the given duration, and mode and url
\* are the request's.
C14_Echo ==
  ret.st = "Ok" =>
    /\ Unwrap(ret.v).raw_model_output = Some(args.raw_output)
    /\ Unwrap(ret.v).meta.model = args.model_name
    /\ Unwrap(ret.v).meta.backend = "llama.cpp"
    /\ Unwrap(ret.v).meta.duration_ms = args.duration_ms
    /\ Unwrap(ret.v).mode = args.request.mode
    /\ Unwrap(ret.v).url = args.request.url

\* A tier-3 response to text with whitespace around it, for a request with a
\* url
C14_Witness ==
  /\ ret.st = "Ok"
  /\ IsSome(Unwrap(ret.v).meta.parse_warnings)
  /\ trim(args.raw_output) # args.raw_output
  /\ trim(args.raw_output) # << >>
  /\ IsSome(args.request.url)


\* C15: when the 10 second timer fires before generation has completed, the
\* request ends with a timeout error that is not the generic inference
\* failure, the generation's result is never used (the parser does not run,
\* the request stays ended), and generate_vision is called at most once per
\* request.
C15_State ==
  \A r \in Req :
    /\ generations[r] <= 1
    /\ result[r] = "Timeout" =>
         /\ pc[r] = "error"
         /\ generations[r] = 1
         /\ "parse" \notin steps[r]
    /\ result[r] = "InferenceFailed" => pc[r] = "error"
C15_Step ==
  \A r \in Req :
    /\ (pc[r] = "generating" /\ pc'[r] = "error") =>
         result'[r] \in {"Timeout", "InferenceFailed"}
    /\ result[r] = "Timeout" =>
         (pc'[r] = pc[r] /\ result'[r] = result[r] /\ steps'[r] = steps[r]
            /\ generations'[r] = generations[r])
C15_Bounded == []C15_State /\ [][C15_Step]_vars

\* A metered request whose generation was cut off by the timer
C15_Witness ==
  /\ result[1] = "Timeout"
  /\ generations[1] = 1
  /\ "load_model" \in steps[1]
  /\ usageWrites[1] = 1


\* What a request must not have run when it is refused at pipeline entry
AfterEntry ==
  {"record_usage", "decode_base64", "fetch_url", "preprocess", "load_model",
   "inference", "parse"}

\* C16: a request is accepted only with exactly one of image_base64 and url:
\* with neither, and with both, it is rejected as an input error at pipeline
\* entry, before any fetch, preprocessing or inference and before usage is
\* metered.
C16_ExactlyOne ==
  \A r \in Req :
    req[r].image \in {"both", "neither"} =>
      /\ result[r] = "NoImageSource"
      /\ steps[r] \cap AfterEntry = {}
      /\ usageWrites[r] = 0


\* The returned size has the original's long edge at exactly the cap and its
\* short edge at least 1 and within 1 pixel of short * cap / long
LongEdgeAtCap(w, h, cap, out) ==
  IF w >= h
  THEN /\ out.width = cap
       /\ out.height >= 1
       /\ out.height * w - h * cap <= w
       /\ h * cap - out.height * w <= w
  ELSE /\ out.height = cap
       /\ out.width >= 1
       /\ out.width * h - w * cap <= h
       /\ w * cap - out.width * h <= h
\* The size after long-edge clamping, as the specification's step 2 gives it
ClampedPixels(w, h, cap) ==
  IF max(w, h) <= cap THEN w * h
  ELSE IF w >= h THEN cap * max((2 * h * cap + w) \div (2 * w), 1)
  ELSE cap * max((2 * w * cap + h) \div (2 * h), 1)

\* C17 as stated: for all sizes and all configurations, if max(w, h) exceeds
\* max_long_edge, the returned size has its long edge exactly at
\* max_long_edge and its short edge within 1 pixel of short * cap / long.
C17_LongEdgeAnyBudget ==
  (ret.st = "Ok" /\ max(args.data.w, args.data.h) > args.cfg.max_long_edge) =>
    LongEdgeAtCap(args.data.w, args.data.h, args.cfg.max_long_edge, Unwrap(ret.v))

\* C17 amended: the same, for the configurations in which the size after
\* long-edge clamping does not exceed max_pixels.
C17_LongEdge ==
  (/\ ret.st # "none"
   /\ args.data.decodes
   /\ max(args.data.w, args.data.h) > args.cfg.max_long_edge
   /\ ClampedPixels(args.data.w, args.data.h, args.cfg.max_long_edge)
        <= args.cfg.max_pixels) =>
    /\ ret.st = "Ok"
    /\ LongEdgeAtCap(args.data.w, args.data.h, args.cfg.max_long_edge,
                     Unwrap(ret.v))

\* A 5 x 3 image clamped to a long edge of 2: the short edge 1.2 is
\* returned as 1
C17_Witness ==
  /\ ret.st = "Ok"
  /\ args.data.w = 5 /\ args.data.h = 3
  /\ args.cfg.max_long_edge = 2
  /\ Unwrap(ret.v) = [width |-> 2, height |-> 1]

\* C18 as stated: for max_pixels >= 1, whenever the size after clamping
\* exceeds max_pixels, step 3 brings width * height to max_pixels or below,
\* so the final guard never fails the request.
C18_BudgetAlwaysMet ==
  (/\ ret.st # "none"
   /\ args.data.decodes
   /\ args.cfg.max_pixels >= 1
   /\ ClampedPixels(args.data.w, args.data.h, args.cfg.max_long_edge)
        > args.cfg.max_pixels) =>
    /\ ret.st = "Ok"
    /\ Unwrap(ret.v).width * Unwrap(ret.v).height <= args.cfg.max_pixels

\* Both edges of the clamped size stay at 1 or above when scaled by
\* sqrt(max_pixels / pixels): the floor at 1 raises neither
NoEdgeRaised(w, h, cfg) ==
  LET c == ClampLongEdge(w, h, cfg) IN
  /\ c.w * cfg.max_pixels >= c.h
  /\ c.h * cfg.max_pixels >= c.w

\* C18 amended: the same, provided the floor at 1 raises neither scaled edge.
C18_BudgetMet ==
  (/\ ret.st # "none"
   /\ args.data.decodes
   /\ args.cfg.max_pixels >= 1
   /\ ClampedPixels(args.data.w, args.data.h, args.cfg.max_long_edge)
        > args.cfg.max_pixels
   /\ NoEdgeRaised(args.data.w, args.data.h, args.cfg)) =>
    /\ ret.st = "Ok"
    /\ Unwrap(ret.v).width * Unwrap(ret.v).height <= args.cfg.max_pixels

\* A 6 x 5 image clamped to 4 x 3 and then scaled into a budget of 7 pixels
C18_Witness ==
  /\ ret.st = "Ok"
  /\ args.data.w = 6 /\ args.data.h = 5
  /\ args.cfg.max_long_edge = 4
  /\ args.cfg.max_pixels = 7
  /\ Unwrap(ret.v).width * Unwrap(ret.v).height <= 7
  /\ Unwrap(ret.v).width < 4

\* C19: preprocess_image returns an error, or a size with both edges at least
\* 1, neither above the original's, and width * height within max_pixels; an
\* original within both caps is returned with its size unchanged.
C19_NeverOversized ==
  /\ ret.st = "Ok" =>
       /\ Unwrap(ret.v).width >= 1
       /\ Unwrap(ret.v).height >= 1
       /\ Unwrap(ret.v).width <= args.data.w
       /\ Unwrap(ret.v).height <= args.data.h
       /\ Unwrap(ret.v).width * Unwrap(ret.v).height <= args.cfg.max_pixels
  /\ (/\ ret.st # "none"
      /\ args.data.decodes
      /\ max(args.data.w, args.data.h) <= args.cfg.max_long_edge
      /\ args.data.w * args.data.h <= args.cfg.max_pixels) =>
       ret = Ok([width |-> args.data.w, height |-> args.data.h])

\* A 1 x 4 image with a budget of 1 pixel: step 3 leaves 1 x 2 and the guard
\* refuses it
C19_Witness ==
  /\ ret.st = "Err"
  /\ args.data.decodes
  /\ args.data.w = 1 /\ args.data.h = 4
  /\ args.cfg.max_long_edge = 4
  /\ args.cfg.max_pixels = 1


\* C20: the prompt's JSON shape hint is a total function of the mode: ocr
\* names text_blocks; layout names layout.regions and
\* layout.key_ui_elements; brief names visual.description; web names dom_map
\* and interaction.description; every other mode string, full included,
\* gives the prompt of full, and that prompt names text_blocks, layout,
\* visual, interaction and dom_map.
C20_ShapeByMode ==
  ret.st # "none" =>
    LET shape == Unwrap(ret.v).analysis_task.shape IN
    /\ ret.st = "returned"
    /\ args.mode = "ocr" => "text_blocks" \in shape
    /\ args.mode = "layout" =>
         {"layout.regions", "layout.key_ui_elements"} \subseteq shape
    /\ args.mode = "brief" => "visual.description" \in shape
    /\ args.mode = "web" => {"dom_map", "interaction.description"} \subseteq shape
    /\ args.mode \notin {"ocr", "layout", "brief", "web"} =>
         /\ ret = prepare_vision_prompt("full", args.width, args.height,
                                        args.model_name)
         /\ {"text_blocks", "layout", "visual", "interaction", "dom_map"}
              \subseteq shape


\* ------------------------------------------------------------------ C21
\* The positions of a request inside validate_license (lines 99-140)
Validating == {"cache_read", "keygen", "keygen_wait", "cache_save", "cache_store"}

\* C21: after any interleaving of validate_license calls in which every
\* disk write succeeded, once all calls have returned and at least one went
\* outside the cache, the license-cache file and the in-memory cache hold
\* the same CachedLicense.
C21_DiskEqualsMemory ==
  (/\ \A r \in Req : pc[r] \notin Validating
   /\ \A r \in Req : "cache_save_failed" \notin steps[r]
   /\ \E r \in Req : "cache_stored" \in steps[r])
  => /\ IsSome(cache)
     /\ diskCache = File(Unwrap(cache))


\* ------------------------------------------------------------------ C22
\* C22: record_usage, with d the whole days elapsed since last_reset: if
\* d >= 1 requests_today restarts from 0, if d >= 30 requests_this_month
\* restarts from 0 and last_reset becomes now; both counters are then
\* incremented by exactly 1; when d < 30 last_reset is unchanged and when
\* d < 1 neither counter is reset.
C22_Windows ==
  \A n \in 1..Len(Calls) :
    LET c == Calls[n]
        d == num_days(c.at - c.found.last_reset)
    IN  /\ c.left.requests_today =
             (IF d >= 1 THEN 0 ELSE c.found.requests_today) + 1
        /\ c.left.requests_this_month =
             (IF d >= 30 THEN 0 ELSE c.found.requests_this_month) + 1
        /\ c.left.last_reset = (IF d >= 30 THEN c.at ELSE c.found.last_reset)

\* A call made exactly one day after last_reset, on counters that were not
\* zero: the daily counter restarted, the monthly one did not
C22_Witness ==
  /\ Len(Calls) >= 1
  /\ num_days(Calls[1].at - Calls[1].found.last_reset) = 1
  /\ Calls[1].found.requests_today = 5
  /\ Calls[1].left.requests_today = 1
  /\ Calls[1].left.requests_this_month = Calls[1].found.requests_this_month + 1


\* ------------------------------------------------------------------ C28
\* C28: the daily counter is a fixed one-day window: for two consecutive
\* record_usage calls made less than one day apart, with no 30-day reset
\* between them, the second call leaves requests_today equal to its value
\* after the first call plus 1.
C28_DailyWindow ==
  \A n \in 2..Len(Calls) :
    (/\ Calls[n].at - Calls[n - 1].at < 24
     /\ Calls[n].left.last_reset = Calls[n - 1].left.last_reset)
    => Calls[n].left.requests_today = Calls[n - 1].left.requests_today + 1


\* ------------------------------------------------------------------ C23
\* What the claim calls well-formed, read off the input document
HasString(item, key) ==
  item.t = "object" /\ key \in DOMAIN item.c /\ item.c[key].t = "string"
HasNumber(item, key) ==
  item.t = "object" /\ key \in DOMAIN item.c /\ item.c[key].t = "number"
HasRect(item) ==
  /\ item.t = "object"
  /\ "position" \in DOMAIN item.c
  /\ \A k \in {"x", "y", "width", "height"} : HasNumber(item.c["position"], k)
WellFormed(field, item) ==
  CASE field = "text_blocks" -> HasString(item, "text")
    [] field = "regions" -> HasString(item, "name") /\ HasString(item, "description")
    [] field = "key_ui_elements" ->
         HasString(item, "name") /\ HasString(item, "element_type")
    [] field = "dom_map" -> HasString(item, "tag") /\ HasRect(item)
    [] OTHER -> item.t = "string"

\* The decoded element `out` is the input element `item`
SameElement(field, out, item) ==
  CASE field = "text_blocks" ->
         /\ out.text = item.c["text"].c
         /\ out.confidence = IF HasNumber(item, "confidence")
                             THEN Some(item.c["confidence"].c) ELSE None
    [] field = "regions" ->
         /\ out.name = item.c["name"].c
         /\ out.description = item.c["description"].c
    [] field = "key_ui_elements" ->
         /\ out.name = item.c["name"].c
         /\ out.element_type = item.c["element_type"].c
    [] field = "dom_map" ->
         /\ out.tag = item.c["tag"].c
         /\ \A k \in {"x", "y", "width", "height"} :
              out.position[k] = item.c["position"].c[k].c
    [] OTHER -> out = item.c

\* The member `key` of v, JSON null when v has none
Child(v, key) ==
  IF v.t = "object" /\ key \in DOMAIN v.c THEN v.c[key] ELSE [t |-> "null", c |-> 0]
IsArray(v) == v.t = "array"

\* `out` is exactly the well-formed elements of the array v, in order; the
\* empty sequence when v is not an array
Subsequence(field, out, v) ==
  LET arr == IF IsArray(v) THEN v.c ELSE << >>
      idx == SelectSeq([i \in 1..Len(arr) |-> i],
                       LAMBDA i : WellFormed(field, arr[i]))
  IN  /\ Len(out) = Len(idx)
      /\ \A j \in 1..Len(idx) : SameElement(field, out[j], arr[idx[j]])

\* C23: every sequence field (text_blocks, layout.regions,
\* layout.key_ui_elements, visual.accent_colors, contrast.issues, dom_map)
\* decodes to exactly the subsequence of the input array's well-formed
\* elements in their original order, whatever the other fields hold; a
\* missing or wrongly-shaped sequence field yields its default (empty, and
\* absent for dom_map); a dom_map element is kept only with a string tag and
\* a position with numeric x, y, width and height.
C23_ElementWise ==
  ret # NotRun =>
    LET resp == Unwrap(ret.v)
        p == args.parsed
        layout == Child(p, "layout")
        visual == Child(p, "visual")
        contrast == Child(visual, "contrast")
    IN  /\ ret.st = "Ok"
        /\ Subsequence("text_blocks", resp.text_blocks, Child(p, "text_blocks"))
        /\ Subsequence("regions", resp.layout.regions, Child(layout, "regions"))
        /\ Subsequence("key_ui_elements", resp.layout.key_ui_elements,
                       Child(layout, "key_ui_elements"))
        /\ Subsequence("accent_colors", resp.visual.accent_colors,
                       Child(visual, "accent_colors"))
        /\ contrast.t = "object" => IsSome(resp.visual.contrast)
        /\ IsSome(resp.visual.contrast) =>
             Subsequence("issues", Unwrap(resp.visual.contrast).issues,
                         Child(contrast, "issues"))
        /\ IF IsArray(Child(p, "dom_map"))
           THEN /\ IsSome(resp.dom_map)
                /\ Subsequence("dom_map", Unwrap(resp.dom_map), Child(p, "dom_map"))
           ELSE resp.dom_map = None

\* A document whose dom_map and text_blocks arrays each hold a malformed
\* and a well-formed element, in opposite orders, was decoded: one element
\* of each was kept, and the strings field beside them kept none
C23_Witness ==
  /\ ret # NotRun
  /\ IsArray(Child(args.parsed, "dom_map"))
  /\ Len(Child(args.parsed, "dom_map").c) = 2
  /\ ~WellFormed("dom_map", Child(args.parsed, "dom_map").c[1])
  /\ WellFormed("dom_map", Child(args.parsed, "dom_map").c[2])
  /\ Len(Unwrap(Unwrap(ret.v).dom_map)) = 1
  /\ IsArray(Child(args.parsed, "text_blocks"))
  /\ Len(Unwrap(ret.v).text_blocks) = 1
  /\ IsArray(Child(Child(args.parsed, "visual"), "accent_colors"))
  /\ Unwrap(ret.v).visual.accent_colors = << >>


\* ------------------------------------------------------------------ C24
\* The codes the response lists: the string codes of its items
ListedCodes ==
  IF IsSome(args.list)
  THEN {Unwrap(Unwrap(args.list)[i]) :
          i \in {j \in 1..Len(Unwrap(args.list)) : IsSome(Unwrap(args.list)[j])}}
  ELSE {}

\* C24: in the verdict built from a successful response, every listed code
\* is an entitlement with value true; vision = true is added when the
\* authority marks the key valid and vision was not listed; monthly_cap =
\* 1000 is added when monthly_cap was not listed; vision is not added for a
\* key marked invalid; nothing else is added; valid equals meta.valid.
C24_Mapping ==
  ret.st = "Ok" =>
    LET v == Unwrap(ret.v)
        ents == v.entitlements
    IN  /\ v.valid = args.valid
        /\ \A c \in ListedCodes : get(ents, c) = Some(JBool(TRUE))
        /\ (args.valid /\ "vision" \notin ListedCodes)
             => get(ents, "vision") = Some(JBool(TRUE))
        /\ "monthly_cap" \notin ListedCodes
             => get(ents, "monthly_cap") = Some(JPosInt(0, 1000))
        /\ (~args.valid /\ "vision" \notin ListedCodes)
             => get(ents, "vision") = None
        /\ DOMAIN ents \subseteq ListedCodes \cup {"vision", "monthly_cap"}

\* An invalid key whose response lists another code and an item without a
\* code: the code is kept, the cap is added, vision is not
C24_Witness ==
  /\ ret.st = "Ok"
  /\ ~args.valid
  /\ ListedCodes = {"premium"}
  /\ Len(Unwrap(args.list)) = 2
  /\ DOMAIN Unwrap(ret.v).entitlements = {"premium", "monthly_cap"}


\* ------------------------------------------------------------------ C29
\* C29: every verdict produced by a remote validation carries a monthly_cap
\* entitlement that is a number, whatever the entitlement list holds, so
\* check_vision_access refuses a request once the monthly counter has
\* reached the default cap.
C29_CapIsNumber ==
  ret.st = "Ok" =>
    LET v == Unwrap(ret.v) IN
    /\ IsSome(CapOf(v))
    /\ IsNumber(Unwrap(CapOf(v)))
    /\ UsageCheck(v, UsageStats(0, DefaultMonthlyCap, 0)) = "UsageLimitExceeded"


\* ------------------------------------------------------------------ C25
\* C25: the monthly quota recovers with time: once check_vision_access has
\* answered UsageLimitExceeded, a check made for a valid, vision-enabled
\* license with a cap of at least 1 when 30 days or more have elapsed since
\* last_reset is not refused for usage (the monthly counter counts as reset
\* although no request has succeeded in between).
C25_Step ==
  \A r \in Req :
    (/\ pc[r] = "usage_read"
     /\ pc'[r] # "usage_read"
     /\ \E earlier \in Req : result[earlier] = "UsageLimitExceeded"
     /\ num_days(now - usage.last_reset) >= 30
     /\ SmallCap(Unwrap(verdict[r]))
     /\ Unwrap(CapOf(Unwrap(verdict[r]))).lo >= 1)
    => result'[r] # "UsageLimitExceeded"
C25_QuotaRecovers == [][C25_Step]_vars


\* ------------------------------------------------------------------ C26
\* C26: under any interleaving of requests that each run
\* check_vision_access and then record_usage with the same valid license and
\* a numeric monthly_cap, with no monthly reset occurring, a monthly counter
\* that is within the cap is never taken above it.
C26_Step ==
  (/\ IsSome(cache)
   /\ cache' = cache
   /\ phase = "serving"
   /\ SmallCap(Unwrap(cache).validation)
   /\ \A r \in Req : "cache_hit" \in steps'[r] \/ pc'[r] = "idle"
   /\ usage'.last_reset = usage.last_reset
   /\ usage.requests_this_month <= Unwrap(CapOf(Unwrap(cache).validation)).lo)
  => usage'.requests_this_month <= Unwrap(CapOf(Unwrap(cache).validation)).lo
C26_WithinCap == [][C26_Step]_vars


\* ------------------------------------------------------------------ C27
\* C27: usage increments are never lost.  While serving, the counters
\* change only in a record_usage call, which is one request taking the free
\* write lock; with no window reset due both counters grow by exactly 1 in
\* it; nothing touches the counters or the file while the lock is held,
\* except the holder's write of the file.
C27_Step ==
  /\ (phase = "serving" /\ usage' # usage) =>
       \E r \in Req :
         /\ usageLock = 0 /\ usageLock' = r
         /\ usageWrites' = [usageWrites EXCEPT ![r] = @ + 1]
         /\ num_days(now - usage.last_reset) < 1 =>
              /\ usage'.requests_today = usage.requests_today + 1
              /\ usage'.requests_this_month = usage.requests_this_month + 1
              /\ usage'.last_reset = usage.last_reset
  /\ (phase = "serving" /\ usage' = usage) => usageWrites' = usageWrites
  /\ usageLock # 0 =>
       /\ usage' = usage
       /\ diskUsage' # diskUsage => usageLock' = 0 /\ pc[usageLock] = "usage_save"

\* Once the calls have completed (the lock is free) and every write of the
\* file succeeded, the file holds the counters memory holds
C27_State ==
  (/\ usageLock = 0
   /\ \E r \in Req : usageWrites[r] >= 1
   /\ \A r \in Req : "usage_save_failed" \notin steps[r])
  => diskUsage = File(usage)

C27_NoLostIncrement == []C27_State /\ [][C27_Step]_vars

\* Two requests have both recorded their usage on counters that started at
\* 1 with no reset due: the counters stand at 3 in memory and in the file
C27_Witness ==
  /\ usageWrites[1] = 1 /\ usageWrites[2] = 1
  /\ usageLock = 0
  /\ usage = UsageStats(3, 3, 0)
  /\ diskUsage = File(usage)

====
